---- MODULE Spec2Model ----
(***************************************************************************)
(* Model of the shorty URL shortener (backend/app): the Redis sliding-     *)
(* window rate limiter (services/rate_limiter.py) and the redirect         *)
(* endpoint with its write-on-miss cache (main.py, cache/__init__.py,      *)
(* db/repositories).                                                       *)
(*                                                                         *)
(* Time is a discrete clock shared by the application (datetime.now) and   *)
(* by Redis (key TTLs).  Every await of a handler is a step of its own,    *)
(* so that concurrent requests interleave where the code can suspend.      *)
(***************************************************************************)
EXTENDS Integers, Sequences, FiniteSets, Bags, TLC

(* ------------------------------ bounds --------------------------------- *)
MaxTime == 4        \* the clock stops here
MaxLimit == 2       \* largest `limit` argument tried
MaxWindow == 3      \* largest `window_seconds` argument tried
MaxCalls == 4       \* check_rate_limit calls in one behaviour
MaxRequests == 3    \* redirect requests in one behaviour

None == "None"

\* an optional time is the empty set (absent) or a singleton {t};
\* a Redis key with deadline t is gone from time t on
Expired(deadline, t) == \E d \in deadline : d <= t

VARIABLES
    clock,            \* wall clock, read by datetime.now() and by Redis
    zsets,            \* Redis sorted sets of the rate limiter, by key
    zttl,             \* Redis expiry deadline of each rate-limit key ({} = none)
    limit,            \* argument `limit` of check_rate_limit
    window_seconds,   \* argument `window_seconds` of check_rate_limit
    caller,           \* position of each concurrent check_rate_limit call
    rlog,             \* history: the check calls in the order Redis ran them
    urls,             \* table `urls`, by primary key
    analytics,        \* table `analytics` (click events): a bag of rows without their ids
    cache,            \* Redis string keys written by cache_set, by key
    req,              \* position and locals of each concurrent redirect request
    nreq,             \* number of redirect requests received so far
    cre,              \* position and locals of each concurrent create request
    del,              \* position and locals of each concurrent delete request
    info,             \* answer of the last GET /api/urls/{short_code}
    pf,               \* the last call of a pure function: its arguments and result
    rst,              \* history: the reset_rate_limit calls in the order Redis ran them
    mw                \* position and locals of each request in RateLimitMiddleware.dispatch

rlvars == <<zsets, zttl, limit, window_seconds, caller, rlog>>
rdvars == <<urls, analytics, cache, req, nreq>>
opvars == <<cre, del, info, pf>>
mwvars == <<rst, mw>>
vars == <<clock, zsets, zttl, limit, window_seconds, caller, rlog,
          urls, analytics, cache, req, nreq, cre, del, info, pf, rst, mw>>

(* --------------------------- rate limiter ------------------------------ *)
Callers == {"c1", "c2"}
Identifiers == {"ip1"}
DefaultPrefix == "ratelimit"

\* key = f"{prefix}:{identifier}"
RateKey(prefix, identifier) == prefix \o ":" \o identifier

\* the identifiers reset_rate_limit is tried on
ResetIdentifiers == {"ip1", "ip2"}

\* str of a sequence of characters
RECURSIVE Join(_)
Join(chars) == IF chars = <<>> THEN "" ELSE Head(chars) \o Join(Tail(chars))

\* request.client.host of the clients
ClientIps == {"10.0.0.1", "10.0.0.2"}

\* request.url.path of POST /api/urls/ and of GET /abc
PathCreate == <<"/", "a", "p", "i", "/", "u", "r", "l", "s", "/">>
PathRedirect == <<"/", "a", "b", "c">>
\* request.url.path of GET /api/urls/abc and of GET /health
PathInfo == <<"/", "a", "p", "i", "/", "u", "r", "l", "s", "/", "a", "b", "c">>
PathHealth == <<"/", "h", "e", "a", "l", "t", "h">>
MwPaths == {PathCreate, PathRedirect, PathInfo, PathHealth}

\* identifier = f"{client_ip}:{request.url.path}"
MwIdentifier(client_ip, path) == client_ip \o ":" \o Join(path)

\* the derived limiters, the prefix each passes to check_rate_limit, and the
\* user ids they are tried on
LimiterNames == {"check_ip_rate_limit", "check_user_rate_limit", "check_url_creation_limit"}

\* mutant: the derived limiters all pass the same prefix
LimiterPrefix_Shared(fn) == "ratelimit:user"

LimiterPrefix(fn) ==
    CASE fn = "check_ip_rate_limit" -> "ratelimit:ip"
      [] fn = "check_user_rate_limit" -> "ratelimit:user"
      [] fn = "check_url_creation_limit" -> "ratelimit:url_creation"

LimiterUsers == {"user1"}

\* the arguments a derived limiter is called with: client addresses for the
\* IP limiter, user ids for the other two
LimiterArgs(fn) == IF fn = "check_ip_rate_limit" THEN ClientIps ELSE LimiterUsers

RLKeys ==
    {RateKey(DefaultPrefix, i) :
        i \in Identifiers \cup ResetIdentifiers
              \cup {MwIdentifier(ip, path) : ip \in ClientIps, path \in MwPaths}}
    \cup UNION {{RateKey(LimiterPrefix(fn), i) : i \in LimiterArgs(fn)} : fn \in LimiterNames}

\* ZREMRANGEBYSCORE key min max: removes the members with min <= score <= max
ZRemRangeByScore(z, min, max) == {e \in z : ~(min <= e.score /\ e.score <= max)}

\* ZCARD key
ZCard(z) == Cardinality(z)

\* ZADD key score member: a member that is already present is re-scored,
\* not added a second time
ZAdd(z, member, score) ==
    {e \in z : e.member # member} \cup {[member |-> member, score |-> score]}

\* mutant: the current request is added only when it is within the limit
PipelineExecute_SkipDenied(z, now, window) ==
    LET window_start == now - window
        pruned == ZRemRangeByScore(z, 0, window_start)
        added == IF ZCard(pruned) < limit THEN ZAdd(pruned, ToString(now), now) ELSE pruned
    IN  [zset |-> added,
         ttl |-> window,
         results |-> <<Cardinality(z) - Cardinality(pruned), ZCard(pruned),
                       Cardinality(added) - Cardinality(pruned), TRUE>>]

\* the MULTI/EXEC batch queued by check_rate_limit: the replies of ZREMRANGEBYSCORE,
\* ZCARD, ZADD and EXPIRE; Python's results[1] is the second, the ZCARD
PipelineExecute(z, now, window) ==
    LET window_start == now - window
        pruned == ZRemRangeByScore(z, 0, window_start)
        added == ZAdd(pruned, ToString(now), now)
    IN  [zset |-> added,
         ttl |-> window,
         results |-> <<Cardinality(z) - Cardinality(pruned), ZCard(pruned),
                       Cardinality(added) - Cardinality(pruned), TRUE>>]

\* mutant: the comparison of line 49 off by one
IsAllowed_OffByOne(request_count, lim) == request_count <= lim

\* is_allowed = request_count < limit
IsAllowed(request_count, lim) == request_count < lim

\* remaining = max(0, limit - request_count - 1)
Remaining(request_count, lim) ==
    IF lim - request_count - 1 > 0 THEN lim - request_count - 1 ELSE 0

Scores(z) == {e.score : e \in z}

IdleCaller == [pc |-> "idle", key |-> None, now |-> 0]

InitRedis ==
    /\ clock = 0
    /\ zsets = [k \in RLKeys |-> {}]
    /\ zttl = [k \in RLKeys |-> {}]
    /\ caller = [c \in Callers |-> IdleCaller]
    /\ rlog = <<>>

Started == Cardinality({c \in Callers : caller[c].pc = "execute"}) + Len(rlog)

\* check_rate_limit up to the await of pipe.execute(): the key and `now`
\* are fixed here, the batch reaches Redis later
CheckStart(c, identifier, prefix) ==
    /\ caller[c].pc = "idle"
    /\ Started < MaxCalls
    /\ caller' = [caller EXCEPT ![c] =
                    [pc |-> "execute", key |-> RateKey(prefix, identifier), now |-> clock]]
    /\ UNCHANGED <<clock, zsets, zttl, limit, window_seconds, rlog>>
    /\ UNCHANGED rdvars
    /\ UNCHANGED opvars
    /\ UNCHANGED mwvars

\* Redis runs the batch; check_rate_limit computes its result and returns
CheckExecute(c) ==
    /\ caller[c].pc = "execute"
    /\ LET key == caller[c].key
           now == caller[c].now
           r == PipelineExecute(zsets[key], now, window_seconds)
           request_count == r.results[2]
       IN  /\ zsets' = [zsets EXCEPT ![key] = r.zset]
           /\ zttl' = [zttl EXCEPT ![key] = {clock + r.ttl}]
           /\ rlog' = Append(rlog,
                  [key |-> key, now |-> now, exec |-> clock,
                   before |-> Scores(zsets[key]),
                   counted |-> Scores(ZRemRangeByScore(zsets[key], 0, now - window_seconds)),
                   after |-> Scores(r.zset),
                   request_count |-> request_count,
                   is_allowed |-> IsAllowed(request_count, limit),
                   remaining |-> Remaining(request_count, limit)])
    /\ caller' = [caller EXCEPT ![c] = IdleCaller]
    /\ UNCHANGED <<clock, limit, window_seconds>>
    /\ UNCHANGED rdvars
    /\ UNCHANGED opvars
    /\ UNCHANGED mwvars

(* ------------------------------ codes ---------------------------------- *)
\* BASE62_ALPHABET = ascii_lowercase + ascii_uppercase + digits
BASE62_ALPHABET ==
    <<"a","b","c","d","e","f","g","h","i","j","k","l","m",
      "n","o","p","q","r","s","t","u","v","w","x","y","z",
      "A","B","C","D","E","F","G","H","I","J","K","L","M",
      "N","O","P","Q","R","S","T","U","V","W","X","Y","Z",
      "0","1","2","3","4","5","6","7","8","9">>

AlphabetChars == {BASE62_ALPHABET[i] : i \in DOMAIN BASE62_ALPHABET}

\* mutant: the upper length bound off by one
is_valid_short_code_UpTo11(short_code) ==
    IF short_code = <<>> THEN FALSE
    ELSE IF ~(3 <= Len(short_code) /\ Len(short_code) <= 11) THEN FALSE
    ELSE \A i \in DOMAIN short_code : short_code[i] \in AlphabetChars

\* mutant: the length check of line 76 is missing
is_valid_short_code_NoLength(short_code) ==
    IF short_code = <<>> THEN FALSE
    ELSE \A i \in DOMAIN short_code : short_code[i] \in AlphabetChars

\* a short code is the sequence of its characters
is_valid_short_code(short_code) ==
    IF short_code = <<>> THEN FALSE
    ELSE IF ~(3 <= Len(short_code) /\ Len(short_code) <= 10) THEN FALSE
    ELSE \A i \in DOMAIN short_code : short_code[i] \in AlphabetChars

CodeA == <<"a","b","c">>
CodeB == <<"X","y","9","z">>
CodeDeleted == <<"d","e","l">>
CodeAbsent == <<"n","o","p","e">>
CodeShort == <<"a","b">>
CodeBadChar == <<"a","!","c">>
CodeLong == <<"a","b","c","d","e","f","g","h","i","j","k">>

RequestCodes == {CodeA, CodeB, CodeDeleted, CodeAbsent, CodeShort, CodeBadChar, CodeLong}

(* ------------------------------ cache ---------------------------------- *)
\* lifetime of a cached link in clock ticks; stands for settings.redis_cache_ttl
\* (86400 s in config.py), scaled to the clock of the model
redis_cache_ttl == 2

\* mutant: the key leaves the short code out
make_cache_key_NoArgs(prefix, arg) == prefix \o <<":">>

\* make_cache_key(prefix, *args): the parts joined with ":"
make_cache_key(prefix, arg) == prefix \o <<":">> \o arg

UrlPrefix == <<"u","r","l">>

CacheKeys == {make_cache_key(UrlPrefix, c) : c \in RequestCodes}

\* json.dumps / json.loads of a dict of strings
JsonDumps(value) == <<"json", value>>
JsonLoads(text) == text[2]

\* cache_get: GET key; an absent key gives None, here the empty set
cache_get(key) == {e.value : e \in cache[key]}

\* cache_get_json: the parsed value, or None for an absent key
cache_get_json(key) == {JsonLoads(v) : v \in cache_get(key)}

\* cache_set: SETEX key ttl value, at Redis time `now`
cache_set(c, key, value, ttl, now) ==
    [c EXCEPT ![key] = {[value |-> value, deadline |-> now + ttl]}]

cache_set_json(c, key, value, ttl, now) == cache_set(c, key, JsonDumps(value), ttl, now)

(* ------------------------------ store ---------------------------------- *)
UrlRow(id, code, long, owner, active, expires) ==
    [id |-> id, short_code |-> code, long_url |-> long, user_id |-> owner,
     click_count |-> 0, last_accessed_at |-> {}, is_active |-> active,
     expires_at |-> expires]

\* the rows left by earlier creates and one soft delete
InitialUrls ==
    [id \in {"u1", "u2", "u3"} |->
        CASE id = "u1" -> UrlRow("u1", CodeA, "https://a.example/", "user1", TRUE, {})
          [] id = "u2" -> UrlRow("u2", CodeB, "https://b.example/", None, TRUE, {1})
          [] id = "u3" -> UrlRow("u3", CodeDeleted, "https://d.example/", "user1", FALSE, {})]

\* mutant: the filter on is_active is missing
get_by_short_code_AnyRow(table, short_code) ==
    {table[id] : id \in {i \in DOMAIN table : table[i].short_code = short_code}}

\* URLRepository.get_by_short_code: the active row with this code, if any
get_by_short_code(table, short_code) ==
    {table[id] : id \in {i \in DOMAIN table :
                            table[i].short_code = short_code /\ table[i].is_active}}

\* AnalyticsRepository.create: one more click event
analytics_create(events, url_id) == events (+) SetToBag({[url_id |-> url_id]})

\* URLRepository.increment_click_count: url.click_count += 1 on the object
\* this session loaded, then the UPDATE of the two changed columns
increment_click_count(table, url, now) ==
    [table EXCEPT ![url.id].click_count = url.click_count + 1,
                  ![url.id].last_accessed_at = {now}]

\* mutant: the expiry check never fires
IsExpired_Never(url, now) == FALSE

\* url.expires_at and url.expires_at < datetime.now(timezone.utc)
IsExpired(url, now) == \E t \in url.expires_at : t < now

\* history: the request for short_code arrives after the expires_at instant
\* of the link that has this code
PastExpiry(table, short_code, now) ==
    \E id \in DOMAIN table :
        table[id].short_code = short_code /\ IsExpired(table[id], now)

(* ----------------------------- redirect -------------------------------- *)
Reqs == {"r1", "r2"}

HTTP_307_TEMPORARY_REDIRECT == 307
HTTP_404_NOT_FOUND == 404
HTTP_410_GONE == 410

IdleReq ==
    [pc |-> "idle", short_code |-> <<>>, late |-> FALSE, cached |-> {},
     url |-> {}, trace |-> <<>>, response |-> {}]

Raise(r, step, status, detail) ==
    [req[r] EXCEPT !.pc = "done",
                   !.trace = Append(@, step),
                   !.response = {[status |-> status, detail |-> detail, location |-> None]}]

Redirect(r, step, long_url) ==
    [req[r] EXCEPT !.pc = "done",
                   !.trace = Append(@, step),
                   !.response = {[status |-> HTTP_307_TEMPORARY_REDIRECT,
                                  detail |-> None, location |-> long_url]}]

\* GET /{short_code} arrives; is_valid_short_code runs before the first await
RedirectStart(r, short_code) ==
    /\ req[r].pc \in {"idle", "done"}
    /\ nreq < MaxRequests
    /\ nreq' = nreq + 1
    /\ LET fresh == [IdleReq EXCEPT !.short_code = short_code,
                                    !.late = PastExpiry(urls, short_code, clock)]
       IN  IF ~is_valid_short_code(short_code)
           THEN req' = [req EXCEPT ![r] =
                          [fresh EXCEPT !.pc = "done", !.trace = <<"validate">>,
                                        !.response = {[status |-> HTTP_404_NOT_FOUND,
                                                       detail |-> "Invalid short code format",
                                                       location |-> None]}]]
           ELSE req' = [req EXCEPT ![r] =
                          [fresh EXCEPT !.pc = "cache_get", !.trace = <<"validate">>]]
    /\ UNCHANGED <<clock, urls, analytics, cache>>
    /\ UNCHANGED rlvars
    /\ UNCHANGED opvars
    /\ UNCHANGED mwvars

\* cached_url = await cache_get_json(cache_key)
RedirectCacheGet(r) ==
    /\ req[r].pc = "cache_get"
    /\ LET cache_key == make_cache_key(UrlPrefix, req[r].short_code)
           cached_url == cache_get_json(cache_key)
       IN  req' = [req EXCEPT ![r].cached = cached_url,
                              ![r].trace = Append(@, "cache_get"),
                              ![r].pc = IF cached_url # {} THEN "hit_record" ELSE "store_get"]
    /\ UNCHANGED <<clock, urls, analytics, cache, nreq>>
    /\ UNCHANGED rlvars
    /\ UNCHANGED opvars
    /\ UNCHANGED mwvars

\* mutant: the cache-hit path also bumps the counter of the cached link
RedirectHitRecord_Counts(r) ==
    /\ req[r].pc = "hit_record"
    /\ \E cached_url \in req[r].cached :
          /\ analytics' = analytics_create(analytics, cached_url.id)
          /\ urls' = [urls EXCEPT ![cached_url.id].click_count = @ + 1]
          /\ req' = [req EXCEPT ![r] = Redirect(r, "record_click", cached_url.long_url)]
    /\ UNCHANGED <<clock, cache, nreq>>
    /\ UNCHANGED rlvars
    /\ UNCHANGED opvars
    /\ UNCHANGED mwvars

\* cache hit: await analytics_repo.create(url_id=cached id), then the redirect
RedirectHitRecord(r) ==
    /\ req[r].pc = "hit_record"
    /\ \E cached_url \in req[r].cached :
          /\ analytics' = analytics_create(analytics, cached_url.id)
          /\ req' = [req EXCEPT ![r] = Redirect(r, "record_click", cached_url.long_url)]
    /\ UNCHANGED <<clock, urls, cache, nreq>>
    /\ UNCHANGED rlvars
    /\ UNCHANGED opvars
    /\ UNCHANGED mwvars

\* cache miss: url = await url_repo.get_by_short_code(short_code), then the
\* not-found and the expiry checks
RedirectStoreGet(r) ==
    /\ req[r].pc = "store_get"
    /\ LET url == get_by_short_code(urls, req[r].short_code)
       IN  IF url = {}
           THEN req' = [req EXCEPT ![r] =
                          Raise(r, "store_get", HTTP_404_NOT_FOUND, "Short URL not found")]
           ELSE IF \E u \in url : IsExpired(u, clock)
           THEN req' = [req EXCEPT ![r] =
                          [Raise(r, "store_get", HTTP_410_GONE, "This short URL has expired")
                             EXCEPT !.url = url]]
           ELSE req' = [req EXCEPT ![r].url = url,
                                   ![r].trace = Append(@, "store_get"),
                                   ![r].pc = "miss_record"]
    /\ UNCHANGED <<clock, urls, analytics, cache, nreq>>
    /\ UNCHANGED rlvars
    /\ UNCHANGED opvars
    /\ UNCHANGED mwvars

\* mutant: the cache is refilled right after the click event, before the
\* increment
RedirectMissRecord_RefillNext(r) ==
    /\ req[r].pc = "miss_record"
    /\ \E url \in req[r].url :
          analytics' = analytics_create(analytics, url.id)
    /\ req' = [req EXCEPT ![r].trace = Append(@, "record_click"),
                          ![r].pc = "cache_set"]
    /\ UNCHANGED <<clock, urls, cache, nreq>>
    /\ UNCHANGED rlvars
    /\ UNCHANGED opvars
    /\ UNCHANGED mwvars

\* mutant: the miss path goes on to the increment without a click event
RedirectMissRecord_NoEvent(r) ==
    /\ req[r].pc = "miss_record"
    /\ req[r].url # {}
    /\ req' = [req EXCEPT ![r].trace = Append(@, "record_click"),
                          ![r].pc = "increment"]
    /\ UNCHANGED <<clock, urls, analytics, cache, nreq>>
    /\ UNCHANGED rlvars
    /\ UNCHANGED opvars
    /\ UNCHANGED mwvars

\* await analytics_repo.create(url_id=url.id)
RedirectMissRecord(r) ==
    /\ req[r].pc = "miss_record"
    /\ \E url \in req[r].url :
          analytics' = analytics_create(analytics, url.id)
    /\ req' = [req EXCEPT ![r].trace = Append(@, "record_click"),
                          ![r].pc = "increment"]
    /\ UNCHANGED <<clock, urls, cache, nreq>>
    /\ UNCHANGED rlvars
    /\ UNCHANGED opvars
    /\ UNCHANGED mwvars

\* await url_repo.increment_click_count(url)
RedirectIncrement(r) ==
    /\ req[r].pc = "increment"
    /\ \E url \in req[r].url :
          /\ urls' = increment_click_count(urls, url, clock)
          /\ req' = [req EXCEPT ![r].url = {[url EXCEPT !.click_count = @ + 1,
                                                        !.last_accessed_at = {clock}]},
                                ![r].trace = Append(@, "increment"),
                                ![r].pc = "cache_set"]
    /\ UNCHANGED <<clock, analytics, cache, nreq>>
    /\ UNCHANGED rlvars
    /\ UNCHANGED opvars
    /\ UNCHANGED mwvars

\* await cache_set_json(cache_key, {"id", "long_url"}, ttl), then the redirect
RedirectCacheSet(r) ==
    /\ req[r].pc = "cache_set"
    /\ \E url \in req[r].url :
          /\ cache' = cache_set_json(cache, make_cache_key(UrlPrefix, req[r].short_code),
                                     [id |-> url.id, long_url |-> url.long_url],
                                     redis_cache_ttl, clock)
          /\ req' = [req EXCEPT ![r] = Redirect(r, "cache_set", url.long_url)]
    /\ UNCHANGED <<clock, urls, analytics, nreq>>
    /\ UNCHANGED rlvars
    /\ UNCHANGED opvars
    /\ UNCHANGED mwvars

\* the create and delete requests in flight
Creators == {"p1", "p2", "p3"}
Deleters == {"d1", "d2"}

IdleCre ==
    [pc |-> "idle", user_id |-> {}, custom_alias |-> {}, short_code |-> {},
     trace |-> <<>>, response |-> {}]

IdleDel ==
    [pc |-> "idle", user_id |-> {}, short_code |-> <<>>, url |-> {},
     trace |-> <<>>, response |-> {}]

\* no pure function has been called yet
NoCall == [fn |-> "none"]

\* the requests that enter through the middleware stack: the create and the
\* redirect requests
MwReqs == Creators \cup Reqs

IdleMw ==
    [pc |-> "idle", client_ip |-> None, path |-> <<>>, limit_per_minute |-> {},
     now |-> 0, checked |-> {}, response |-> {}]

InitOps ==
    /\ cre = [p \in Creators |-> IdleCre]
    /\ del = [d \in Deleters |-> IdleDel]
    /\ info = {}
    /\ pf = NoCall
    /\ rst = <<>>
    /\ mw = [m \in MwReqs |-> IdleMw]

InitStore ==
    /\ urls = InitialUrls
    /\ analytics = EmptyBag
    /\ cache = [k \in CacheKeys |-> {}]
    /\ req = [r \in Reqs |-> IdleReq]
    /\ nreq = 0

\* time passes; Redis drops the keys whose TTL has run out
Tick ==
    /\ clock < MaxTime
    /\ clock' = clock + 1
    /\ zsets' = [k \in RLKeys |-> IF Expired(zttl[k], clock') THEN {} ELSE zsets[k]]
    /\ zttl' = [k \in RLKeys |-> IF Expired(zttl[k], clock') THEN {} ELSE zttl[k]]
    /\ cache' = [k \in CacheKeys |->
                   {e \in cache[k] : ~Expired({e.deadline}, clock')}]
    /\ UNCHANGED <<limit, window_seconds, caller, rlog, urls, analytics, req, nreq>>
    /\ UNCHANGED opvars
    /\ UNCHANGED mwvars

NextRL ==
    \/ \E c \in Callers, i \in Identifiers : CheckStart(c, i, DefaultPrefix)
    \/ \E c \in Callers : CheckExecute(c)
    \/ Tick

NextRD ==
    \/ \E r \in Reqs, short_code \in RequestCodes : RedirectStart(r, short_code)
    \/ \E r \in Reqs : RedirectCacheGet(r)
    \/ \E r \in Reqs : RedirectHitRecord(r)
    \/ \E r \in Reqs : RedirectStoreGet(r)
    \/ \E r \in Reqs : RedirectMissRecord(r)
    \/ \E r \in Reqs : RedirectIncrement(r)
    \/ \E r \in Reqs : RedirectCacheSet(r)
    \/ Tick

\* the rate limiter alone, for every limit and window within the bounds
InitRL ==
    /\ InitRedis
    /\ InitStore
    /\ InitOps
    /\ limit \in 1..MaxLimit
    /\ window_seconds \in 1..MaxWindow

SpecRL == InitRL /\ [][NextRL]_vars

\* the redirect endpoint alone; the limiter is idle
InitRD ==
    /\ InitRedis
    /\ InitStore
    /\ InitOps
    /\ limit = 1
    /\ window_seconds = 1

SpecRD == InitRD /\ [][NextRD]_vars

(* ======================= rate limiter: properties ====================== *)
\* the check calls Redis has run on one key, oldest first
KeyLog(key) == SelectSeq(rlog, LAMBDA e : e.key = key)

\* the batch reached Redis at the instant the caller read `now`
NotStalled(e) == e.exec = e.now

\* the timestamps of the calls before the j-th that lie less than
\* window_seconds before it
RecentBefore(log, j) ==
    {log[i].now : i \in {k \in 1..(j - 1) : log[k].now > log[j].now - window_seconds}}

MinOf(S) == CHOOSE m \in S : \A x \in S : m <= x

\* C1 (as claimed): from an empty window the first `limit` calls are allowed,
\* every further call that has `limit` earlier calls less than window_seconds
\* before it is denied, and a call made more than window_seconds after all
\* earlier calls is allowed again.
C1_AllowDenyAllow ==
    \A key \in RLKeys :
        LET log == KeyLog(key)
        IN  \A j \in DOMAIN log :
              /\ j <= limit => log[j].is_allowed
              /\ ( /\ \A i \in 1..j : NotStalled(log[i])
                   /\ Cardinality({i \in 1..(j - 1) :
                                      log[i].now > log[j].now - window_seconds}) >= limit )
                 => ~log[j].is_allowed
              /\ (\A i \in 1..(j - 1) : log[j].now > log[i].now + window_seconds)
                 => log[j].is_allowed

\* C2 (as claimed): the batches of the callers of one key do not interleave,
\* so two calls of one window (the earlier less than window_seconds before
\* the later, nothing pruned between them) observe distinct counts, and at
\* most `limit` of the calls whose timestamps lie in one window are allowed.
C2_AtomicDistinctCounts ==
    \A key \in RLKeys :
        LET log == KeyLog(key)
        IN  \A j \in DOMAIN log :
              (\A i \in 1..j : NotStalled(log[i])) =>
                /\ \A i \in 1..(j - 1) :
                      ( /\ log[i].now > log[j].now - window_seconds
                        /\ log[i].counted \subseteq log[j].counted )
                        => log[i].request_count # log[j].request_count
                /\ Cardinality({i \in 1..j :
                                   /\ log[i].is_allowed
                                   /\ log[i].now > log[j].now - window_seconds}) <= limit

\* C3, first part: the call's own timestamp is a member of the window after
\* every check, allowed or denied, and a call that was denied is denied again
\* when retried while every entry counted at the denial is still less than
\* window_seconds old.
C3_DeniedOccupiesSlot ==
    \A key \in RLKeys :
        LET log == KeyLog(key)
        IN  \A j \in DOMAIN log :
              /\ log[j].now \in log[j].after
              /\ \A i \in 1..(j - 1) :
                    ( /\ ~log[i].is_allowed
                      /\ NotStalled(log[j])
                      /\ MinOf(log[i].counted \cup {log[i].now}) > log[j].now - window_seconds )
                    => ~log[j].is_allowed

\* C3 (as amended): a denied call occupies a slot, and a call is denied
\* whenever at least `limit` earlier calls with distinct timestamps, allowed
\* or denied, were made less than window_seconds before it.
C3_Amended ==
    /\ C3_DeniedOccupiesSlot
    /\ \A key \in RLKeys :
          LET log == KeyLog(key)
          IN  \A j \in DOMAIN log :
                (NotStalled(log[j]) /\ Cardinality(RecentBefore(log, j)) >= limit)
                  => ~log[j].is_allowed

\* C3 (as claimed): ... and a caller that keeps calling with gaps shorter
\* than the window after reaching the limit is never allowed again.
C3_NeverAllowedAgain ==
    /\ C3_DeniedOccupiesSlot
    /\ \A key \in RLKeys :
          LET log == KeyLog(key)
          IN  \A j \in DOMAIN log :
                ( /\ \A i \in 1..j : NotStalled(log[i])
                  /\ \A i \in 2..j : /\ log[i].now > log[i - 1].now
                                      /\ log[i].now - log[i - 1].now < window_seconds
                  /\ \E d \in 1..(j - 1) : ~log[d].is_allowed )
                => ~log[j].is_allowed

\* C3 witness: a denied call was retried within the window and denied again,
\* the earlier denied call being one of the entries that fill the window
C3_Witness ==
    \E key \in RLKeys :
        LET log == KeyLog(key)
        IN  \E j \in DOMAIN log : \E i \in 1..(j - 1) :
              /\ ~log[i].is_allowed /\ ~log[j].is_allowed
              /\ NotStalled(log[j])
              /\ log[i].now \in log[j].counted
              /\ log[j].request_count = limit

\* C4: is_allowed is true exactly when the count after pruning is below the
\* limit, and remaining is max(0, limit - count - 1): never negative, 0 on the
\* last allowed call and on every denied call.
C4_AllowedAndRemaining ==
    \A j \in DOMAIN rlog :
        LET e == rlog[j]
            c == Cardinality(e.counted)
        IN  /\ e.is_allowed <=> (c < limit)
            /\ e.remaining = (IF limit - c - 1 >= 0 THEN limit - c - 1 ELSE 0)
            /\ e.remaining >= 0
            /\ (e.is_allowed /\ c = limit - 1) => e.remaining = 0
            /\ ~e.is_allowed => e.remaining = 0

\* C4 witness: one behaviour holds a call with slots left, the last allowed
\* call and a denied call
C4_Witness ==
    /\ \E j \in DOMAIN rlog : rlog[j].is_allowed /\ rlog[j].remaining > 0
    /\ \E j \in DOMAIN rlog : rlog[j].is_allowed /\ rlog[j].remaining = 0
    /\ \E j \in DOMAIN rlog : ~rlog[j].is_allowed /\ Cardinality(rlog[j].counted) > limit

(* ========================= redirect: properties ======================== *)
\* request r takes a step
Steps(r) == req'[r] # req[r]

ClickEvents(events, url_id) == CopiesIn([url_id |-> url_id], events)

TotalClickEvents(events) == BagCardinality(events)

StatusOf(r) == {x.status : x \in req[r].response}

LocationOf(r) == {x.location : x \in req[r].response}

\* the active row that has this code
ActiveRows(short_code) ==
    {id \in DOMAIN urls : urls[id].short_code = short_code /\ urls[id].is_active}

\* C5: a redirect answered from the cache leaves every row of the store as it
\* is (click_count and last_accessed_at included), records exactly one click
\* event, for the cached id, and redirects to the cached long_url.
C5_CacheHitFrame ==
    /\ [][\A r \in Reqs :
            /\ (Steps(r) /\ req[r].pc = "cache_get" /\ req'[r].pc = "hit_record")
                  => UNCHANGED <<urls, analytics>>
            /\ (Steps(r) /\ req[r].pc = "hit_record")
                  => \E c \in req[r].cached :
                        /\ urls' = urls
                        /\ ClickEvents(analytics', c.id) = ClickEvents(analytics, c.id) + 1
                        /\ TotalClickEvents(analytics') = TotalClickEvents(analytics) + 1
                        /\ req'[r].pc = "done"
                        /\ StatusOf(r)' = {HTTP_307_TEMPORARY_REDIRECT}
                        /\ LocationOf(r)' = {c.long_url}]_vars
    /\ [](\A r \in Reqs :
            (req[r].pc = "done" /\ req[r].cached # {})
              => req[r].trace = <<"validate", "cache_get", "record_click">>)

\* C5 witness: a request was answered from the cache
C5_Witness ==
    \E r \in Reqs :
        /\ req[r].pc = "done" /\ req[r].cached # {}
        /\ StatusOf(r) = {HTTP_307_TEMPORARY_REDIRECT}

\* C6 (as claimed): a redirect that misses the cache and finds an active,
\* unexpired link increments the link's click_count by exactly 1, sets
\* last_accessed_at, records exactly one click event for the link, leaves the
\* cache holding {id, long_url} under url:{short_code} with the configured
\* TTL, and redirects to the link's long_url.
C6_MissIncrementsByOne ==
    [][\A r \in Reqs : \A u \in req[r].url :
          /\ (Steps(r) /\ req[r].pc = "miss_record")
                => /\ ClickEvents(analytics', u.id) = ClickEvents(analytics, u.id) + 1
                   /\ TotalClickEvents(analytics') = TotalClickEvents(analytics) + 1
          /\ (Steps(r) /\ req[r].pc = "increment")
                => /\ urls'[u.id].click_count = urls[u.id].click_count + 1
                   /\ urls'[u.id].last_accessed_at = {clock}
          /\ (Steps(r) /\ req[r].pc = "cache_set")
                => /\ cache'[make_cache_key(UrlPrefix, req[r].short_code)] =
                         {[value |-> JsonDumps([id |-> u.id, long_url |-> u.long_url]),
                           deadline |-> clock + redis_cache_ttl]}
                   /\ StatusOf(r)' = {HTTP_307_TEMPORARY_REDIRECT}
                   /\ LocationOf(r)' = {urls[u.id].long_url}]_vars

\* C7: a cache miss that finds a link whose expires_at is set and in the past
\* answers Gone and changes nothing: no cache entry, no click event, no change
\* of any row.
C7_ExpiredIsGone ==
    [][\A r \in Reqs :
          ( /\ Steps(r) /\ req[r].pc = "store_get"
            /\ \E id \in ActiveRows(req[r].short_code) :
                  \E t \in urls[id].expires_at : t < clock )
          => /\ req'[r].pc = "done"
             /\ StatusOf(r)' = {HTTP_410_GONE}
             /\ UNCHANGED <<cache, analytics, urls>>]_vars

\* C7 witness: a request found an expired link and was answered Gone
C7_Witness ==
    \E r \in Reqs :
        /\ req[r].pc = "done" /\ StatusOf(r) = {HTTP_410_GONE}
        /\ req[r].trace = <<"validate", "cache_get", "store_get">>
        /\ cache[make_cache_key(UrlPrefix, req[r].short_code)] = {}

\* C8 (as claimed): a redirect of a code requested after the link's
\* expires_at instant never returns the long_url, whatever the cache holds.
C8_NoRedirectPastExpiry ==
    \A r \in Reqs :
        (req[r].pc = "done" /\ req[r].late)
          => StatusOf(r) # {HTTP_307_TEMPORARY_REDIRECT}

InvalidCodes == {CodeShort, CodeBadChar, CodeLong}

C10_AbsentNotFound ==
    [][\A r \in Reqs :
          (Steps(r) /\ req[r].pc = "store_get" /\ ActiveRows(req[r].short_code) = {})
          => /\ req'[r].pc = "done"
             /\ StatusOf(r)' = {HTTP_404_NOT_FOUND}
             /\ UNCHANGED <<cache, analytics, urls>>]_vars

\* C10 witness: a request for the code of a soft-deleted link missed the cache
\* and was answered 404
C10_Witness ==
    \E r \in Reqs :
        /\ req[r].pc = "done" /\ req[r].short_code = CodeDeleted
        /\ req[r].trace = <<"validate", "cache_get", "store_get">>
        /\ StatusOf(r) = {HTTP_404_NOT_FOUND}

(* ========================== code generator ============================= *)
MaxNum == 4000          \* largest integer encoded
MaxCodeLen == 12        \* longest code given to the validator
MaxMixedLen == 3        \* longest code tried with every mix of the sample characters
MaxAttempts == 2        \* largest max_attempts argument tried

\* settings.short_code_length
short_code_length == 6

\* BASE62_ALPHABET[i], with Python's index from 0
Symbol(i) == BASE62_ALPHABET[i + 1]

\* BASE62_ALPHABET.index(char)
IndexOf(char) == (CHOOSE i \in DOMAIN BASE62_ALPHABET : BASE62_ALPHABET[i] = char) - 1

Reverse(seq) == [i \in 1..Len(seq) |-> seq[Len(seq) + 1 - i]]

\* the loop of encode_base62: the digits of num, lowest first
RECURSIVE EncodeDigits(_)
EncodeDigits(num) ==
    IF num > 0 THEN <<Symbol(num % 62)>> \o EncodeDigits(num \div 62) ELSE <<>>

\* mutant: the digits are joined without reversed()
encode_base62_NotReversed(num) ==
    IF num = 0 THEN <<Symbol(0)>> ELSE EncodeDigits(num)

encode_base62(num) ==
    IF num = 0 THEN <<Symbol(0)>> ELSE Reverse(EncodeDigits(num))

\* the loop of decode_base62 over the characters read so far
RECURSIVE DecodeFrom(_, _)
DecodeFrom(num, encoded) ==
    IF encoded = <<>> THEN num
    ELSE DecodeFrom(num * 62 + IndexOf(Head(encoded)), Tail(encoded))

decode_base62(encoded) == DecodeFrom(0, encoded)

\* the function under its own name for the calls of the generator and of the
\* validator: is_valid_short_code(short_code)
validate(short_code) == is_valid_short_code(short_code)

\* the codes given to the validator: every mix of the sample characters up to
\* MaxMixedLen, and runs of one character, clean or ending in a foreign
\* character, of every length up to MaxCodeLen
SampleChars == {"a", "Z", "0", "9", "!", "_", "-", " "}

MixedCodes == UNION {[1..n -> {"q", "Q", "7", "!"}] : n \in 0..MaxMixedLen}

RunCodes ==
    {[i \in 1..n |-> c] : n \in 0..MaxCodeLen, c \in SampleChars}
    \cup {[i \in 1..n |-> IF i = n THEN c ELSE "a"] : n \in 1..MaxCodeLen, c \in SampleChars}
    \cup {[i \in 1..n |-> IF i = 1 THEN c ELSE "z"] : n \in 1..MaxCodeLen, c \in SampleChars}

ValidatorInputs == MixedCodes \cup RunCodes

\* generate_short_code(length): a sample of the outcomes of the random draw
GenPool(length) ==
    {[i \in 1..length |-> IF i = length THEN c ELSE "g"] : c \in {"1", "2"}}

\* the draws the random source will deliver to one call, in order:
\* max_attempts at the default length, then max_attempts one longer
Tapes(max_attempts) ==
    {[i \in 1..(2 * max_attempts) |->
         IF i <= max_attempts THEN first[i] ELSE second[i - max_attempts]] :
       first \in [1..max_attempts -> GenPool(short_code_length)],
       second \in [1..max_attempts -> GenPool(short_code_length + 1)]}

\* mutant: the second loop draws at the default length again and its result
\* is returned without the membership test
FirstFree_NoSecondCheck(existing_codes, tape) ==
    LET half == Len(tape) \div 2
        free == {i \in 1..half : tape[i] \notin existing_codes}
    IN  IF free = {} THEN half + 1 ELSE CHOOSE i \in free : \A k \in free : i <= k

\* the two for-loops of generate_unique_short_code: the index of the first
\* draw that is not in existing_codes, 0 when every draw collided
FirstFree(existing_codes, tape) ==
    LET free == {i \in DOMAIN tape : tape[i] \notin existing_codes}
    IN  IF free = {} THEN 0 ELSE CHOOSE i \in free : \A k \in free : i <= k

\* mutant: the taken check runs before the format check
generate_unique_short_code_TakenFirst(existing_codes, custom_alias, max_attempts, tape) ==
    IF custom_alias # {} /\ custom_alias # {<<>>}
    THEN LET alias == CHOOSE a \in custom_alias : TRUE
         IN  IF alias \in existing_codes
             THEN [kind |-> "taken", code |-> <<>>, draws |-> 0]
             ELSE IF ~is_valid_short_code(alias)
             THEN [kind |-> "invalid", code |-> <<>>, draws |-> 0]
             ELSE [kind |-> "code", code |-> alias, draws |-> 0]
    ELSE LET k == FirstFree(existing_codes, tape)
         IN  IF k = 0
             THEN [kind |-> "none", code |-> <<>>, draws |-> Len(tape)]
             ELSE [kind |-> "code", code |-> tape[k], draws |-> k]

\* generate_unique_short_code(existing_codes, custom_alias, max_attempts); an
\* absent alias is {}, a given one {alias}.  kind is "code" (returned),
\* "invalid" / "taken" (the two ValueErrors) or "none" (returned None);
\* draws counts the random draws made
generate_unique_short_code(existing_codes, custom_alias, max_attempts, tape) ==
    IF custom_alias # {} /\ custom_alias # {<<>>}
    THEN LET alias == CHOOSE a \in custom_alias : TRUE
         IN  IF ~is_valid_short_code(alias)
             THEN [kind |-> "invalid", code |-> <<>>, draws |-> 0]
             ELSE IF alias \in existing_codes
             THEN [kind |-> "taken", code |-> <<>>, draws |-> 0]
             ELSE [kind |-> "code", code |-> alias, draws |-> 0]
    ELSE LET k == FirstFree(existing_codes, tape)
         IN  IF k = 0
             THEN [kind |-> "none", code |-> <<>>, draws |-> Len(tape)]
             ELSE [kind |-> "code", code |-> tape[k], draws |-> k]

\* the arguments tried
AliasInputs == {{}, {<<>>}, {CodeA}, {CodeAbsent}, {CodeShort}, {CodeBadChar}, {CodeLong}}

ExistingInputs ==
    {e \cup x : e \in SUBSET (GenPool(short_code_length) \cup GenPool(short_code_length + 1)),
                x \in {{}, {CodeA}, {CodeA, CodeBadChar}}}

CallValidate(short_code) ==
    /\ pf = NoCall
    /\ pf' = [fn |-> "validate", short_code |-> short_code, result |-> validate(short_code)]
    /\ UNCHANGED <<clock, rlvars, rdvars, cre, del, info>>
    /\ UNCHANGED mwvars

CallBase62(num) ==
    /\ pf = NoCall
    /\ pf' = [fn |-> "base62", num |-> num, encoded |-> encode_base62(num),
              decoded |-> decode_base62(encode_base62(num))]
    /\ UNCHANGED <<clock, rlvars, rdvars, cre, del, info>>
    /\ UNCHANGED mwvars

CallGenerate(existing_codes, custom_alias, max_attempts, tape) ==
    /\ pf = NoCall
    /\ pf' = [fn |-> "generate", existing_codes |-> existing_codes,
              custom_alias |-> custom_alias, max_attempts |-> max_attempts, tape |-> tape,
              result |-> generate_unique_short_code(existing_codes, custom_alias,
                                                    max_attempts, tape)]
    /\ UNCHANGED <<clock, rlvars, rdvars, cre, del, info>>
    /\ UNCHANGED mwvars

NextFn ==
    \/ \E short_code \in ValidatorInputs : CallValidate(short_code)
    \/ \E num \in 0..MaxNum : CallBase62(num)
    \/ \E existing_codes \in ExistingInputs, custom_alias \in AliasInputs,
          max_attempts \in 1..MaxAttempts :
            \E tape \in Tapes(max_attempts) :
                CallGenerate(existing_codes, custom_alias, max_attempts, tape)

\* the pure functions of the code generator, each called once on every
\* argument within the bounds
InitFn ==
    /\ InitRedis
    /\ InitStore
    /\ InitOps
    /\ limit = 1
    /\ window_seconds = 1

SpecFn == InitFn /\ [][NextFn]_vars

(* --------------------- properties: code generator ---------------------- *)
\* the 62 symbols, written out
LowercaseLetters ==
    {"a", "b", "c", "d", "e", "f", "g", "h", "i", "j", "k", "l", "m", "n", "o", "p", "q", "r", "s", "t", "u", "v", "w", "x", "y", "z"}

UppercaseLetters ==
    {"A", "B", "C", "D", "E", "F", "G", "H", "I", "J", "K", "L", "M", "N", "O", "P", "Q", "R", "S", "T", "U", "V", "W", "X", "Y", "Z"}

Digits == {"0", "1", "2", "3", "4", "5", "6", "7", "8", "9"}

\* C19: validate(code) is true exactly when code is non-empty, has between 3
\* and 10 characters, and every character is a letter or a digit
C19_ValidateExactly ==
    pf.fn = "validate" =>
        (pf.result <=>
            /\ pf.short_code # <<>>
            /\ Len(pf.short_code) >= 3
            /\ Len(pf.short_code) <= 10
            /\ \A i \in DOMAIN pf.short_code :
                  pf.short_code[i] \in LowercaseLetters \cup UppercaseLetters \cup Digits)

\* a code of the greatest accepted length was validated and accepted
C19_Witness ==
    /\ pf.fn = "validate"
    /\ Len(pf.short_code) = 10
    /\ pf.result

\* C20: decoding the encoding of n gives n back, for 0 too, and 0 is encoded as
\* the first symbol of the alphabet
C20_RoundTrip ==
    pf.fn = "base62" =>
        /\ pf.decoded = pf.num
        /\ pf.num = 0 => pf.encoded = <<"a">>

\* a number of three base-62 digits went through the round trip
C20_Witness ==
    /\ pf.fn = "base62"
    /\ Len(pf.encoded) = 3
    /\ pf.decoded = pf.num

\* the outcome the specification gives a call with this alias
AliasOutcome(call, alias) ==
    /\ call.result.draws = 0
    /\ ~validate(alias) => call.result.kind = "invalid"
    /\ validate(alias) /\ alias \in call.existing_codes => call.result.kind = "taken"
    /\ validate(alias) /\ alias \notin call.existing_codes =>
          call.result.kind = "code" /\ call.result.code = alias

C18_FirstFreeDraw ==
    pf.fn = "generate" /\ pf.custom_alias = {} =>
        LET res == pf.result
            collided(i) == pf.tape[i] \in pf.existing_codes
        IN  /\ res.kind \in {"code", "none"}
            /\ res.draws <= 2 * pf.max_attempts
            /\ res.kind = "none" => \A i \in 1..(2 * pf.max_attempts) : collided(i)
            /\ res.kind = "code" =>
                  /\ res.draws >= 1
                  /\ res.code = pf.tape[res.draws]
                  /\ res.code \notin pf.existing_codes
                  /\ \A i \in 1..(res.draws - 1) : collided(i)
                  /\ Len(res.code) = IF res.draws <= pf.max_attempts
                                     THEN short_code_length
                                     ELSE short_code_length + 1

\* every draw of the default length collided and a longer code was returned
C18_Witness ==
    /\ pf.fn = "generate"
    /\ pf.custom_alias = {}
    /\ pf.max_attempts = MaxAttempts
    /\ pf.result.kind = "code"
    /\ pf.result.draws > pf.max_attempts
    /\ Len(pf.result.code) = short_code_length + 1

(* ====================== delete and info lookup ========================= *)
HTTP_200_OK == 200
HTTP_204_NO_CONTENT == 204
HTTP_400_BAD_REQUEST == 400
HTTP_401_UNAUTHORIZED == 401
HTTP_403_FORBIDDEN == 403

\* what the authentication dependency hands the handler: no user, or a user id
Credentials == {{}, {"user1"}, {"user2"}}

LifecycleCodes == {CodeA}
DeleteCodes == {CodeA, CodeDeleted, CodeBadChar}
InfoCodes == {CodeA, CodeShort}

\* URLRepository.delete: url.is_active = False and the commit
delete(table, url) == [table EXCEPT ![url.id].is_active = FALSE]

EndDel(d, step, status, detail) ==
    [del[d] EXCEPT !.pc = "done",
                   !.trace = Append(@, step),
                   !.response = {[status |-> status, detail |-> detail]}]

\* DELETE /api/urls/{short_code} arrives: require_auth, then the format check
DeleteStart(d, user_id, short_code) ==
    /\ del[d].pc = "idle"
    /\ LET fresh == [del[d] EXCEPT !.user_id = user_id, !.short_code = short_code]
       IN  IF user_id = {}
           THEN del' = [del EXCEPT ![d] =
                          [del[d] EXCEPT !.pc = "done", !.trace = <<"auth">>,
                                        !.response = {[status |-> HTTP_401_UNAUTHORIZED,
                                                       detail |-> "Missing authentication token"]}]]
           ELSE IF ~is_valid_short_code(short_code)
           THEN del' = [del EXCEPT ![d] =
                          [fresh EXCEPT !.pc = "done", !.trace = <<"auth", "validate">>,
                                        !.response = {[status |-> HTTP_400_BAD_REQUEST,
                                                       detail |-> "Invalid short code format"]}]]
           ELSE del' = [del EXCEPT ![d] =
                          [fresh EXCEPT !.pc = "store_get", !.trace = <<"auth", "validate">>]]
    /\ UNCHANGED <<clock, cre, info, pf>>
    /\ UNCHANGED mwvars
    /\ UNCHANGED rlvars
    /\ UNCHANGED rdvars

\* mutant: the ownership check is missing
DeleteStoreGet_NoOwnerCheck(d) ==
    /\ del[d].pc = "store_get"
    /\ LET url == get_by_short_code(urls, del[d].short_code)
       IN  IF url = {}
           THEN del' = [del EXCEPT ![d] =
                          EndDel(d, "store_get", HTTP_404_NOT_FOUND, "Short URL not found")]
           ELSE del' = [del EXCEPT ![d].url = url,
                                   ![d].trace = Append(@, "store_get"),
                                   ![d].pc = "commit"]
    /\ UNCHANGED <<clock, cre, info, pf>>
    /\ UNCHANGED mwvars
    /\ UNCHANGED rlvars
    /\ UNCHANGED rdvars

\* url = await url_repo.get_by_short_code(short_code), then the not-found and
\* the ownership checks
DeleteStoreGet(d) ==
    /\ del[d].pc = "store_get"
    /\ LET url == get_by_short_code(urls, del[d].short_code)
       IN  IF url = {}
           THEN del' = [del EXCEPT ![d] =
                          EndDel(d, "store_get", HTTP_404_NOT_FOUND, "Short URL not found")]
           ELSE IF \E u \in url : {u.user_id} # del[d].user_id
           THEN del' = [del EXCEPT ![d] =
                          EndDel(d, "store_get", HTTP_403_FORBIDDEN,
                                 "You can only delete your own URLs")]
           ELSE del' = [del EXCEPT ![d].url = url,
                                   ![d].trace = Append(@, "store_get"),
                                   ![d].pc = "commit"]
    /\ UNCHANGED <<clock, cre, info, pf>>
    /\ UNCHANGED mwvars
    /\ UNCHANGED rlvars
    /\ UNCHANGED rdvars

\* mutant: the delete also drops the cache entry of the code
DeleteCommit_InvalidatesCache(d) ==
    /\ del[d].pc = "commit"
    /\ \E url \in del[d].url : urls' = delete(urls, url)
    /\ cache' = [cache EXCEPT ![make_cache_key(UrlPrefix, del[d].short_code)] = {}]
    /\ del' = [del EXCEPT ![d] = EndDel(d, "delete", HTTP_204_NO_CONTENT, None)]
    /\ UNCHANGED <<clock, analytics, req, nreq, cre, info, pf>>
    /\ UNCHANGED mwvars
    /\ UNCHANGED rlvars

\* await url_repo.delete(url), then 204
DeleteCommit(d) ==
    /\ del[d].pc = "commit"
    /\ \E url \in del[d].url : urls' = delete(urls, url)
    /\ del' = [del EXCEPT ![d] = EndDel(d, "delete", HTTP_204_NO_CONTENT, None)]
    /\ UNCHANGED <<clock, analytics, cache, req, nreq, cre, info, pf>>
    /\ UNCHANGED mwvars
    /\ UNCHANGED rlvars

\* GET /api/urls/{short_code}: the format check, the lookup, the row found
\* (kept by its id)
get_url_info(short_code) ==
    /\ LET url == get_by_short_code(urls, short_code)
       IN  info' = IF ~is_valid_short_code(short_code)
                   THEN {[short_code |-> short_code, status |-> HTTP_400_BAD_REQUEST,
                          detail |-> "Invalid short code format", url_id |-> {}]}
                   ELSE IF url = {}
                   THEN {[short_code |-> short_code, status |-> HTTP_404_NOT_FOUND,
                          detail |-> "Short URL not found", url_id |-> {}]}
                   ELSE {[short_code |-> short_code, status |-> HTTP_200_OK,
                          detail |-> None, url_id |-> {u.id : u \in url}]}
    /\ UNCHANGED <<clock, cre, del, pf>>
    /\ UNCHANGED mwvars
    /\ UNCHANGED rlvars
    /\ UNCHANGED rdvars

\* one delete request runs beside the redirects
LifecycleDeleters == {"d1"}

NextLC ==
    \/ \E r \in Reqs, short_code \in LifecycleCodes : RedirectStart(r, short_code)
    \/ \E r \in Reqs : RedirectCacheGet(r)
    \/ \E r \in Reqs : RedirectHitRecord(r)
    \/ \E r \in Reqs : RedirectStoreGet(r)
    \/ \E r \in Reqs : RedirectMissRecord(r)
    \/ \E r \in Reqs : RedirectIncrement(r)
    \/ \E r \in Reqs : RedirectCacheSet(r)
    \/ Tick
    \/ \E d \in LifecycleDeleters, user_id \in Credentials, short_code \in DeleteCodes :
          DeleteStart(d, user_id, short_code)
    \/ \E d \in LifecycleDeleters : DeleteStoreGet(d)
    \/ \E d \in LifecycleDeleters : DeleteCommit(d)
    \/ \E short_code \in InfoCodes : get_url_info(short_code)

\* redirects, a delete and info lookups over the same store and cache
InitLC ==
    /\ InitRedis
    /\ InitStore
    /\ InitOps
    /\ limit = 1
    /\ window_seconds = 1

SpecLC == InitLC /\ [][NextLC]_vars

(* ------------------------ properties: lifecycle ------------------------ *)
\* the link that has this code is soft-deleted
SoftDeleted(table, short_code) ==
    \E id \in DOMAIN table :
        table[id].short_code = short_code /\ ~table[id].is_active

\* C11: a soft-deleted link is never returned by the lookup by code: a
\* redirect that found no cache entry and reads the store, an info lookup and
\* a delete of its code all end NotFound, and the link stays soft-deleted
C11_DeletedNotFound ==
    [][/\ \A r \in Reqs :
            (req[r].pc = "store_get" /\ Steps(r) /\ SoftDeleted(urls, req[r].short_code))
                => /\ StatusOf(r)' = {HTTP_404_NOT_FOUND}
                   /\ req'[r].url = {}
       /\ info' # info =>
            \A answer \in info' :
                SoftDeleted(urls, answer.short_code)
                    => answer.status = HTTP_404_NOT_FOUND /\ answer.url_id = {}
       /\ \A d \in Deleters :
            (del[d].pc = "store_get" /\ del'[d] # del[d] /\ SoftDeleted(urls, del[d].short_code))
                => {x.status : x \in del'[d].response} = {HTTP_404_NOT_FOUND}
       /\ \A short_code \in RequestCodes :
            SoftDeleted(urls, short_code) => SoftDeleted(urls', short_code)
      ]_vars

\* a link that was redirected to and cached was deleted; after its cache entry
\* ran out a redirect and an info lookup of its code both ended NotFound
C11_Witness ==
    /\ ~urls["u1"].is_active
    /\ urls["u1"].click_count >= 1
    /\ cache[make_cache_key(UrlPrefix, CodeA)] = {}
    /\ \E d \in Deleters :
          del[d].short_code = CodeA /\ {x.status : x \in del[d].response} = {HTTP_204_NO_CONTENT}
    /\ \E r \in Reqs :
          /\ req[r].pc = "done"
          /\ req[r].short_code = CodeA
          /\ req[r].trace = <<"validate", "cache_get", "store_get">>
          /\ StatusOf(r) = {HTTP_404_NOT_FOUND}
    /\ \E answer \in info :
          answer.short_code = CodeA /\ answer.status = HTTP_404_NOT_FOUND

(* ================== redirect with failing dependencies ================= *)
HTTP_500_INTERNAL_SERVER_ERROR == 500

\* an exception no handler catches leaves the endpoint: the server answers 500
Unhandled(r, step) ==
    Raise(r, step, HTTP_500_INTERNAL_SERVER_ERROR, "Internal Server Error")

FaultCodes == {CodeA, CodeAbsent}

\* cached_url = await cache_get_json(cache_key) while Redis cannot be reached:
\* client.get raises, cache_get_json catches JSONDecodeError only
RedirectCacheGetFails(r) ==
    /\ req[r].pc = "cache_get"
    /\ req' = [req EXCEPT ![r] = Unhandled(r, "cache_get_failed")]
    /\ UNCHANGED <<clock, urls, analytics, cache, nreq>>
    /\ UNCHANGED rlvars
    /\ UNCHANGED opvars
    /\ UNCHANGED mwvars

\* cache hit: await analytics_repo.create(...) raises at its commit
RedirectHitRecordFails(r) ==
    /\ req[r].pc = "hit_record"
    /\ req' = [req EXCEPT ![r] = Unhandled(r, "record_click_failed")]
    /\ UNCHANGED <<clock, urls, analytics, cache, nreq>>
    /\ UNCHANGED rlvars
    /\ UNCHANGED opvars
    /\ UNCHANGED mwvars

\* cache miss: await analytics_repo.create(...) raises at its commit
RedirectMissRecordFails(r) ==
    /\ req[r].pc = "miss_record"
    /\ req' = [req EXCEPT ![r] = Unhandled(r, "record_click_failed")]
    /\ UNCHANGED <<clock, urls, analytics, cache, nreq>>
    /\ UNCHANGED rlvars
    /\ UNCHANGED opvars
    /\ UNCHANGED mwvars

\* await cache_set_json(...) while Redis cannot be reached: client.setex raises
RedirectCacheSetFails(r) ==
    /\ req[r].pc = "cache_set"
    /\ req' = [req EXCEPT ![r] = Unhandled(r, "cache_set_failed")]
    /\ UNCHANGED <<clock, urls, analytics, cache, nreq>>
    /\ UNCHANGED rlvars
    /\ UNCHANGED opvars
    /\ UNCHANGED mwvars

\* await url_repo.increment_click_count(url) raises at its commit
RedirectIncrementFails(r) ==
    /\ req[r].pc = "increment"
    /\ req' = [req EXCEPT ![r] = Unhandled(r, "increment_failed")]
    /\ UNCHANGED <<clock, urls, analytics, cache, nreq>>
    /\ UNCHANGED rlvars
    /\ UNCHANGED opvars
    /\ UNCHANGED mwvars

NextFT ==
    \/ \E r \in Reqs, short_code \in FaultCodes : RedirectStart(r, short_code)
    \/ \E r \in Reqs : RedirectCacheGet(r)
    \/ \E r \in Reqs : RedirectCacheGetFails(r)
    \/ \E r \in Reqs : RedirectHitRecord(r)
    \/ \E r \in Reqs : RedirectHitRecordFails(r)
    \/ \E r \in Reqs : RedirectStoreGet(r)
    \/ \E r \in Reqs : RedirectMissRecord(r)
    \/ \E r \in Reqs : RedirectMissRecordFails(r)
    \/ \E r \in Reqs : RedirectIncrement(r)
    \/ \E r \in Reqs : RedirectIncrementFails(r)
    \/ \E r \in Reqs : RedirectCacheSet(r)
    \/ \E r \in Reqs : RedirectCacheSetFails(r)
    \/ Tick

\* the redirect endpoint with a cache and a click-event store that may fail
InitFT ==
    /\ InitRedis
    /\ InitStore
    /\ InitOps
    /\ limit = 1
    /\ window_seconds = 1

SpecFT == InitFT /\ [][NextFT]_vars

(* ------------------------- properties: failures ------------------------ *)
Range(seq) == {seq[i] : i \in DOMAIN seq}

\* C12: a redirect whose click-event write failed, on the cache-hit or on the
\* cache-miss path, still answers with the redirect to long_url
C12_RecordFailureSwallowed ==
    \A r \in Reqs :
        (req[r].pc = "done" /\ "record_click_failed" \in Range(req[r].trace))
            => /\ StatusOf(r) = {HTTP_307_TEMPORARY_REDIRECT}
               /\ LocationOf(r) \subseteq {urls[id].long_url : id \in DOMAIN urls}

\* C13: a redirect that met a failing cache operation and no other failure
\* answers as the store says: the long_url of an active link that has not
\* expired, NotFound for a code no link has
C13_CacheFailureIsMiss ==
    \A r \in Reqs :
        (/\ req[r].pc = "done"
         /\ Range(req[r].trace) \cap {"cache_get_failed", "cache_set_failed"} # {}
         /\ "record_click_failed" \notin Range(req[r].trace))
            => /\ \A id \in ActiveRows(req[r].short_code) :
                     ~IsExpired(urls[id], clock)
                        => /\ StatusOf(r) = {HTTP_307_TEMPORARY_REDIRECT}
                           /\ LocationOf(r) = {urls[id].long_url}
               /\ (\A id \in DOMAIN urls : urls[id].short_code # req[r].short_code)
                     => StatusOf(r) = {HTTP_404_NOT_FOUND}

(* ============================== create ================================= *)
MaxCreateDraws == 1     \* draws per round that a create request is modelled with

HTTP_201_CREATED == 201

CodeNew == <<"n", "e", "w">>
\* accepted by the request schema (pattern ^[a-zA-Z0-9_-]+$), not by the validator
CodeUnderscore == <<"a", "_", "b">>

\* what get_current_user_id hands the handler: None or a user id
CreateUsers == {{}, {"user1"}}

\* url_data.custom_alias after the schema: absent, or 3 to 10 characters
CreateAliases == {{}, {CodeNew}, {CodeDeleted}, {CodeUnderscore}}

\* the id the store gives the row of this request
NewId(p) == CASE p = "p1" -> "n1" [] p = "p2" -> "n2" [] OTHER -> "n3"

\* Python truthiness of an optional alias
Truthy(optional) == optional # {} /\ optional # {<<>>}

\* mutant: the owner check for custom aliases is missing
AuthRequired_Never(user_id, custom_alias) == FALSE

\* if not user_id and url_data.custom_alias
AuthRequired(user_id, custom_alias) == user_id = {} /\ Truthy(custom_alias)

\* URLRepository.get_all_short_codes: the codes of all rows, active or not
get_all_short_codes(table) == {table[id].short_code : id \in DOMAIN table}

\* mutant: the column has no unique constraint
UniqueViolation_Unchecked(table, short_code) == FALSE

\* the unique constraint on urls.short_code refuses the INSERT
UniqueViolation(table, short_code) ==
    \E id \in DOMAIN table : table[id].short_code = short_code

\* URLRepository.create: the row as committed
create(table, id, short_code, long_url, user_id, expires_at) ==
    [i \in DOMAIN table \cup {id} |->
        IF i = id
        THEN UrlRow(id, short_code, long_url,
                    IF user_id = {} THEN None ELSE CHOOSE u \in user_id : TRUE,
                    TRUE, expires_at)
        ELSE table[i]]

EndCre(p, step, status, detail) ==
    [cre[p] EXCEPT !.pc = "done",
                   !.trace = Append(@, step),
                   !.response = {[status |-> status, detail |-> detail]}]

\* POST /api/urls/ arrives: the owner check, existing_codes = await
\* url_repo.get_all_short_codes(), generate_unique_short_code and the mapping
\* of its failures.  The handler passes the default max_attempts; the draws
\* are independent, so what ten draws per round can return one draw can
CreateStart(p, user_id, custom_alias, tape) ==
    /\ cre[p].pc = "idle"
    /\ LET fresh == [cre[p] EXCEPT !.user_id = user_id, !.custom_alias = custom_alias]
           existing_codes == get_all_short_codes(urls)
           res == generate_unique_short_code(existing_codes, custom_alias,
                                             Len(tape) \div 2, tape)
           end(step, status, detail) ==
               [fresh EXCEPT !.pc = "done", !.trace = <<step>>,
                             !.response = {[status |-> status, detail |-> detail]}]
       IN  cre' = [cre EXCEPT ![p] =
              IF AuthRequired(user_id, custom_alias)
              THEN end("auth", HTTP_401_UNAUTHORIZED,
                       "Authentication required to create custom aliases")
              ELSE IF res.kind = "invalid"
              THEN end("generate", HTTP_400_BAD_REQUEST, "Invalid custom alias format")
              ELSE IF res.kind = "taken"
              THEN end("generate", HTTP_400_BAD_REQUEST, "Custom alias already exists")
              ELSE IF res.kind = "none"
              THEN end("generate", HTTP_500_INTERNAL_SERVER_ERROR,
                       "Failed to generate unique short code, please try again")
              ELSE [fresh EXCEPT !.pc = "insert", !.trace = <<"generate">>,
                                 !.short_code = {res.code}]]
    /\ UNCHANGED <<clock, del, info, pf>>
    /\ UNCHANGED mwvars
    /\ UNCHANGED rlvars
    /\ UNCHANGED rdvars

\* url = await url_repo.create(...): the INSERT commits, or the unique
\* constraint refuses it and the IntegrityError leaves the handler uncaught
CreateInsert(p) ==
    /\ cre[p].pc = "insert"
    /\ \E short_code \in cre[p].short_code :
          IF UniqueViolation(urls, short_code)
          THEN /\ cre' = [cre EXCEPT ![p] =
                            EndCre(p, "insert_failed", HTTP_500_INTERNAL_SERVER_ERROR,
                                   "Internal Server Error")]
               /\ urls' = urls
          ELSE /\ urls' = create(urls, NewId(p), short_code, "https://n.example/",
                                 cre[p].user_id, {})
               /\ cre' = [cre EXCEPT ![p] = EndCre(p, "insert", HTTP_201_CREATED, None)]
    /\ UNCHANGED <<clock, analytics, cache, req, nreq, del, info, pf>>
    /\ UNCHANGED mwvars
    /\ UNCHANGED rlvars

NextCR ==
    \/ \E p \in Creators, user_id \in CreateUsers, custom_alias \in CreateAliases :
          \E tape \in Tapes(MaxCreateDraws) : CreateStart(p, user_id, custom_alias, tape)
    \/ \E p \in Creators : CreateInsert(p)
    \/ \E short_code \in {CodeNew, CodeDeleted} : get_url_info(short_code)

\* concurrent create requests over the store
InitCR ==
    /\ InitRedis
    /\ InitStore
    /\ InitOps
    /\ limit = 1
    /\ window_seconds = 1

SpecCR == InitCR /\ [][NextCR]_vars

(* ------------------------- properties: create -------------------------- *)
CreStatus(p) == {x.status : x \in cre[p].response}

CreDetail(p) == {x.detail : x \in cre[p].response}

\* C14: no two rows of the store, active or soft-deleted, have the same
\* short_code, whatever creates ran concurrently, and a create by an
\* authenticated caller with the code of a soft-deleted link as custom alias is
\* refused as taken
C14_UniqueShortCodes ==
    /\ \A id1 \in DOMAIN urls, id2 \in DOMAIN urls :
          id1 # id2 => urls[id1].short_code # urls[id2].short_code
    /\ \A p \in Creators :
          (/\ cre[p].pc # "idle"
           /\ cre[p].user_id # {}
           /\ \E alias \in cre[p].custom_alias : SoftDeleted(urls, alias))
             => /\ cre[p].pc = "done"
                /\ CreStatus(p) = {HTTP_400_BAD_REQUEST}
                /\ CreDetail(p) = {"Custom alias already exists"}
                /\ NewId(p) \notin DOMAIN urls

\* two concurrent creates chose the same code and one row has it; a third
\* create asked for the code of the soft-deleted link and was refused
C14_Witness ==
    /\ \E p \in Creators, q \in Creators :
          /\ p # q
          /\ cre[p].short_code = cre[q].short_code
          /\ CreStatus(p) = {HTTP_201_CREATED}
          /\ cre[q].trace = <<"generate", "insert_failed">>
    /\ \E p \in Creators :
          /\ cre[p].custom_alias = {CodeDeleted}
          /\ CreDetail(p) = {"Custom alias already exists"}

\* C15: a create whose insert was refused by the unique constraint ends with
\* a row under a freshly generated code, or with the retryable server error or
\* the alias-taken error; the violation is never left unhandled
C15_InsertFailureHandled ==
    \A p \in Creators :
        (cre[p].pc = "done" /\ "insert_failed" \in Range(cre[p].trace))
            => \/ /\ NewId(p) \in DOMAIN urls
                  /\ CreStatus(p) = {HTTP_201_CREATED}
                  /\ {urls[NewId(p)].short_code} # cre[p].custom_alias
               \/ CreDetail(p) \subseteq
                     {"Failed to generate unique short code, please try again",
                      "Custom alias already exists"}

\* C16: a create with a custom alias and no authenticated owner ends
\* AuthRequired and inserts no row; a create without a custom alias by an
\* anonymous caller is never refused for want of authentication, and the row
\* it inserts has no owner
C16_AliasNeedsOwner ==
    \A p \in Creators :
        cre[p].pc # "idle" /\ cre[p].user_id = {} =>
            IF cre[p].custom_alias # {}
            THEN /\ cre[p].pc = "done"
                 /\ CreStatus(p) = {HTTP_401_UNAUTHORIZED}
                 /\ NewId(p) \notin DOMAIN urls
            ELSE /\ HTTP_401_UNAUTHORIZED \notin CreStatus(p)
                 /\ CreStatus(p) = {HTTP_201_CREATED} =>
                       /\ NewId(p) \in DOMAIN urls
                       /\ urls[NewId(p)].user_id = None
                       /\ {urls[NewId(p)].short_code} = cre[p].short_code
                 /\ NewId(p) \in DOMAIN urls => CreStatus(p) = {HTTP_201_CREATED}

\* an anonymous create with an alias was refused and an anonymous create
\* without one was stored with no owner
C16_Witness ==
    /\ \E p \in Creators :
          /\ cre[p].user_id = {}
          /\ cre[p].custom_alias = {CodeNew}
          /\ CreStatus(p) = {HTTP_401_UNAUTHORIZED}
    /\ \E p \in Creators :
          /\ cre[p].user_id = {}
          /\ cre[p].custom_alias = {}
          /\ CreStatus(p) = {HTTP_201_CREATED}
          /\ urls[NewId(p)].user_id = None

(* ---------------------- properties: prune bound ------------------------ *)
\* C26: the prune of a check removes exactly the entries whose timestamp is
\* strictly less than now - window_seconds: an entry at exactly that instant is
\* kept and counted
C26_PruneStrictlyOlder ==
    \A i \in DOMAIN rlog :
        LET e == rlog[i]
            window_start == e.now - window_seconds
        IN  /\ e.counted = {score \in e.before : score >= window_start}
            /\ e.request_count = Cardinality({score \in e.before : score >= window_start})

(* -------------------- properties: one member per call ------------------- *)
\* C32 (as claimed): every check call adds one new member.  After k calls on
\* a fresh key that all lie within one window (none stalled, the first less
\* than window_seconds before the k-th) the set holds k members and the k-th
\* call observed k - 1, calls with equal timestamps included.
C32_OneMemberPerCall ==
    \A key \in RLKeys :
        LET log == KeyLog(key)
        IN  \A k \in DOMAIN log :
              ( /\ \A i \in 1..k : NotStalled(log[i])
                /\ log[1].now > log[k].now - window_seconds )
              => /\ Cardinality(log[k].after) = k
                 /\ log[k].request_count = k - 1

(* ------------------ properties: counter versus events ------------------- *)
\* C31: in every state the click_count of every link is at most the number
\* of click events recorded for it; click_count changes only in the increment
\* step of a cache-miss redirect of that link, after that request recorded its
\* click event; a cache-hit redirect adds a click event and leaves every
\* click_count as it is.
C31_CountAtMostEvents ==
    /\ [](\A id \in DOMAIN urls :
            urls[id].click_count <= ClickEvents(analytics, id))
    /\ [][\A id \in DOMAIN urls :
            urls'[id].click_count # urls[id].click_count
              => \E r \in Reqs :
                    /\ Steps(r)
                    /\ req[r].pc = "increment"
                    /\ req[r].cached = {}
                    /\ req[r].trace = <<"validate", "cache_get", "store_get", "record_click">>
                    /\ \E u \in req[r].url : u.id = id]_vars
    /\ [][\A r \in Reqs :
            ( /\ Steps(r)
              /\ req[r].pc = "hit_record"
              /\ StatusOf(r)' = {HTTP_307_TEMPORARY_REDIRECT} )
              => /\ \A id \in DOMAIN urls : urls'[id].click_count = urls[id].click_count
                 /\ TotalClickEvents(analytics') = TotalClickEvents(analytics) + 1]_vars

\* a link was counted on a miss and redirected again from the cache: it has
\* more click events than its click_count
C31_Witness ==
    \E id \in DOMAIN urls :
        /\ urls[id].click_count >= 1
        /\ ClickEvents(analytics, id) > urls[id].click_count
        /\ \E r \in Reqs : req[r].pc = "done" /\ req[r].cached # {}

(* ============================== reset ================================== *)
MaxResets == 1      \* reset_rate_limit calls in one behaviour

\* mutant: DEL removes every key of the limiter
RedisDelete_AllKeys(sets, key) == [k \in DOMAIN sets |-> {}]

\* DEL key
RedisDelete(sets, key) == [sets EXCEPT ![key] = {}]

\* reset_rate_limit(identifier, prefix): one DEL, result > 0 when a key was
\* removed
ResetRateLimit(identifier, prefix) ==
    /\ Len(rst) < MaxResets
    /\ LET key == RateKey(prefix, identifier)
           result == IF zsets[key] # RedisDelete(zsets, key)[key] THEN 1 ELSE 0
       IN  /\ zsets' = RedisDelete(zsets, key)
           /\ zttl' = RedisDelete(zttl, key)
           /\ rst' = Append(rst, [key |-> key, returned |-> result > 0,
                                  after_checks |-> Len(rlog)])
    /\ UNCHANGED <<clock, limit, window_seconds, caller, rlog, mw>>
    /\ UNCHANGED rdvars
    /\ UNCHANGED opvars

\* the check calls run one at a time here
ResetCallers == {"c1"}

NextRS ==
    \/ \E c \in ResetCallers, i \in ResetIdentifiers : CheckStart(c, i, DefaultPrefix)
    \/ \E c \in ResetCallers : CheckExecute(c)
    \/ \E i \in ResetIdentifiers : ResetRateLimit(i, DefaultPrefix)
    \/ Tick

\* the rate limiter with its administrative reset, over two identifiers
InitRS ==
    /\ InitRedis
    /\ InitStore
    /\ InitOps
    /\ limit = 1
    /\ window_seconds = MaxWindow

SpecRS == InitRS /\ [][NextRS]_vars

(* ------------------------- properties: reset --------------------------- *)
\* the checks on this key that Redis ran after the first `n` of the log
ChecksAfter(log, key, n) == {j \in DOMAIN log : j > n /\ log[j].key = key}

\* C25: a reset removes its key and nothing else and returns true exactly
\* when the key existed; the first check that Redis runs on the key after a
\* reset counts 0 and is allowed
C25_ResetDeletesKey ==
    [][/\ rst' # rst =>
            LET x == rst'[Len(rst')]
            IN  /\ zsets'[x.key] = {}
                /\ zttl'[x.key] = {}
                /\ x.returned <=> zsets[x.key] # {}
                /\ \A k \in RLKeys \ {x.key} :
                      zsets'[k] = zsets[k] /\ zttl'[k] = zttl[k]
       /\ rlog' # rlog =>
            LET e == rlog'[Len(rlog')]
            IN  (\E i \in DOMAIN rst :
                    /\ rst[i].key = e.key
                    /\ ChecksAfter(rlog, e.key, rst[i].after_checks) = {})
                  => e.request_count = 0 /\ e.is_allowed
      ]_vars

\* a caller that had just been denied was reset and allowed again at the
\* same instant, while the window of the other key kept its entry
C25_Witness ==
    /\ Len(rst) = 1
    /\ rst[1].returned
    /\ rst[1].key = RateKey(DefaultPrefix, "ip1")
    /\ zsets[RateKey(DefaultPrefix, "ip2")] # {}
    /\ \E i \in DOMAIN rlog :
          /\ i = rst[1].after_checks
          /\ rlog[i].key = rst[1].key
          /\ ~rlog[i].is_allowed
          /\ \E j \in ChecksAfter(rlog, rst[1].key, i) :
                /\ rlog[j].is_allowed
                /\ rlog[j].request_count = 0
                /\ rlog[j].now = rlog[i].now

(* ----------------------- properties: click_count ---------------------- *)
\* C22: click_count of every link starts at 0, is never negative and never
\* decreases, whatever redirects run and however they interleave
C22_ClickCountMonotonic ==
    /\ [](\A id \in DOMAIN urls : urls[id].click_count >= 0)
    /\ [][\A id \in DOMAIN urls : urls'[id].click_count >= urls[id].click_count]_vars

(* --------------------- properties: order of steps ---------------------- *)
Last(seq) == seq[Len(seq)]

MissPath == <<"validate", "cache_get", "store_get", "record_click", "increment", "cache_set">>

\* C27: on a cache miss with a found link the click event is recorded first,
\* then click_count is incremented, then the cache is refilled: the refill of a
\* request comes after its click event and its increment are committed, and a
\* request that fails at the increment has recorded its click event and
\* writes no cache entry
C27_MissPathOrder ==
    [][\A r \in Reqs : Steps(r) =>
          LET step == Last(req'[r].trace)
              done == req[r].trace
          IN  /\ (step = "record_click" /\ req[r].pc = "miss_record")
                    => /\ done = SubSeq(MissPath, 1, 3)
                       /\ cache' = cache /\ urls' = urls
              /\ step \in {"increment", "increment_failed"}
                    => /\ done = SubSeq(MissPath, 1, 4)
                       /\ cache' = cache
                       /\ \A url \in req[r].url : ClickEvents(analytics, url.id) >= 1
              /\ step = "cache_set"
                    => /\ done = SubSeq(MissPath, 1, 5)
                       /\ \A url \in req[r].url :
                             /\ ClickEvents(analytics, url.id) >= 1
                             /\ urls[url.id].click_count >= 1
                             /\ cache'[make_cache_key(UrlPrefix, req[r].short_code)] # {}
              /\ step = "increment_failed"
                    => /\ req'[r].pc = "done"
                       /\ StatusOf(r)' = {HTTP_500_INTERNAL_SERVER_ERROR}
                       /\ analytics' = analytics /\ urls' = urls
      ]_vars

\* a request failed at the increment: its click event is recorded and the code
\* has no cache entry
C27_Witness ==
    \E r \in Reqs :
        /\ req[r].pc = "done"
        /\ req[r].trace = SubSeq(MissPath, 1, 4) \o <<"increment_failed">>
        /\ \A url \in req[r].url : ClickEvents(analytics, url.id) = 1
        /\ req[r].url # {}
        /\ cache[make_cache_key(UrlPrefix, req[r].short_code)] = {}

(* ----------------------- properties: cache refill --------------------- *)
\* C28: a cache entry url:{code}, when present, is {id, long_url} of the row
\* that has this short_code, and a refill of a key that has an entry writes
\* the value that is there, however the cache-miss redirects of the code
\* interleave
C28_CacheMatchesStore ==
    /\ [](\A short_code \in RequestCodes :
            \A e \in cache[make_cache_key(UrlPrefix, short_code)] :
                \E id \in DOMAIN urls :
                    /\ urls[id].short_code = short_code
                    /\ JsonLoads(e.value) = [id |-> id, long_url |-> urls[id].long_url])
    /\ [][\A k \in CacheKeys :
            (cache[k] # {} /\ cache'[k] # {})
                => {e.value : e \in cache'[k]} = {e.value : e \in cache[k]}]_vars

\* two redirects of one code both missed the cache and both refilled it
C28_Witness ==
    /\ \A r \in Reqs :
          /\ req[r].pc = "done"
          /\ req[r].short_code = CodeA
          /\ req[r].trace = MissPath
    /\ cache[make_cache_key(UrlPrefix, CodeA)] # {}

(* ============================ delete alone ============================= *)
DeleteAllCodes == {CodeA, CodeB, CodeDeleted, CodeAbsent, CodeBadChar}

NextDL ==
    \/ \E d \in Deleters, user_id \in Credentials, short_code \in DeleteAllCodes :
          DeleteStart(d, user_id, short_code)
    \/ \E d \in Deleters : DeleteStoreGet(d)
    \/ \E d \in Deleters : DeleteCommit(d)
    \/ \E short_code \in InfoCodes : get_url_info(short_code)

\* two concurrent delete requests, and info lookups, over the store
InitDL ==
    /\ InitRedis
    /\ InitStore
    /\ InitOps
    /\ limit = 1
    /\ window_seconds = 1

SpecDL == InitDL /\ [][NextDL]_vars

(* -------------------------- properties: delete ------------------------- *)
DelStatus(d) == {x.status : x \in del[d].response}

\* the owner of the active row that has this code: a user id or None
OwnersOf(short_code) == {urls[id].user_id : id \in ActiveRows(short_code)}

\* C29: a delete by an authenticated user who is not the owner of the link, a
\* link with no owner included, ends Forbidden and changes no row; a delete of
\* an absent or soft-deleted code ends NotFound; only a delete by the owner
\* clears is_active, and no row is ever removed
C29_OnlyOwnerDeletes ==
    /\ [](DOMAIN InitialUrls \subseteq DOMAIN urls)
    /\ [][/\ \A d \in Deleters :
               (del[d].pc = "store_get" /\ del'[d] # del[d]) =>
                   /\ urls' = urls
                   /\ OwnersOf(del[d].short_code) = {}
                         => DelStatus(d)' = {HTTP_404_NOT_FOUND}
                   /\ (OwnersOf(del[d].short_code) # {}
                        /\ OwnersOf(del[d].short_code) # del[d].user_id)
                         => DelStatus(d)' = {HTTP_403_FORBIDDEN}
                   /\ OwnersOf(del[d].short_code) = del[d].user_id
                         => del'[d].pc = "commit"
          /\ \A id \in DOMAIN urls :
               urls'[id] # urls[id] =>
                   /\ urls'[id] = [urls[id] EXCEPT !.is_active = FALSE]
                   /\ \E d \in Deleters :
                         /\ del[d].pc = "commit"
                         /\ DelStatus(d)' = {HTTP_204_NO_CONTENT}
                         /\ del[d].user_id = {urls[id].user_id}
                         /\ del[d].short_code = urls[id].short_code
         ]_vars

\* the owner deleted the link, which is still a row of the store, and
\* another user was refused the delete of a link that has no owner
C29_Witness ==
    /\ ~urls["u1"].is_active
    /\ \E d \in Deleters :
          /\ del[d].short_code = CodeA
          /\ del[d].user_id = {"user1"}
          /\ DelStatus(d) = {HTTP_204_NO_CONTENT}
    /\ \E d \in Deleters :
          /\ del[d].short_code = CodeB
          /\ urls["u2"].user_id = None
          /\ DelStatus(d) = {HTTP_403_FORBIDDEN}
          /\ urls["u2"].is_active

C21_InfoLikeRedirect ==
    [][info' # info =>
          /\ analytics' = analytics
          /\ urls' = urls
          /\ \A answer \in info' :
                /\ ~is_valid_short_code(answer.short_code)
                      => /\ answer.status = HTTP_404_NOT_FOUND
                         /\ answer.url_id = {}
                /\ ActiveRows(answer.short_code) = {}
                      => /\ answer.status = HTTP_404_NOT_FOUND
                         /\ answer.url_id = {}
      ]_vars

(* ===================== rate limiting middleware ======================== *)
\* the requests-per-minute limits of the middleware (20, 5 and 10 in the
\* code) and its window of 60 seconds, scaled to the clock of the model
MwLimit == 2
MwWindow == 2

HTTP_429_TOO_MANY_REQUESTS == 429

\* retry_after = 60
retry_after == 60

\* self.rate_limits, in the order of the dict
rate_limits ==
    <<[path_pattern |-> <<"/", "a", "p", "i", "/", "u", "r", "l", "s", "/">>, limit |-> MwLimit],
      [path_pattern |-> <<"/", "a", "p", "i", "/", "a", "u", "t", "h", "/", "r", "e", "g", "i", "s", "t", "e", "r">>, limit |-> MwLimit],
      [path_pattern |-> <<"/", "a", "p", "i", "/", "a", "u", "t", "h", "/", "l", "o", "g", "i", "n">>, limit |-> MwLimit]>>

\* the prefixes that skip rate limiting
SkippedPrefixes ==
    {<<"/", "h", "e", "a", "l", "t", "h">>, <<"/", "d", "o", "c", "s">>,
     <<"/", "o", "p", "e", "n", "a", "p", "i", ".", "j", "s", "o", "n">>, <<"/", "r", "e", "d", "o", "c">>}

\* str.startswith
StartsWith(path, prefix) ==
    Len(prefix) <= Len(path) /\ SubSeq(path, 1, Len(prefix)) = prefix

\* the loop over self.rate_limits: the limit of the first pattern that is a
\* prefix of the path, None when there is none
MatchLimit(path) ==
    LET matching == {i \in DOMAIN rate_limits : StartsWith(path, rate_limits[i].path_pattern)}
    IN  IF matching = {} THEN {}
        ELSE {rate_limits[CHOOSE i \in matching : \A k \in matching : i <= k].limit}

\* the request.url.path of the request kind this process sends
PathsOf(m) ==
    IF m \in Creators THEN {PathCreate} ELSE {<<"/">> \o short_code : short_code \in {CodeA}}

\* dispatch up to its first await: the skip list, the limit of the path, and
\* for a limited path check_rate_limit up to the await of pipe.execute()
MwDispatch(m, client_ip, path) ==
    /\ mw[m].pc = "idle"
    /\ LET limit_per_minute ==
               IF \E prefix \in SkippedPrefixes : StartsWith(path, prefix)
               THEN {} ELSE MatchLimit(path)
       IN  mw' = [mw EXCEPT ![m] =
                    [IdleMw EXCEPT !.client_ip = client_ip,
                                   !.path = path,
                                   !.limit_per_minute = limit_per_minute,
                                   !.now = IF limit_per_minute = {} THEN 0 ELSE clock,
                                   !.pc = IF limit_per_minute = {} THEN "call_next"
                                          ELSE "check"]]
    /\ UNCHANGED <<clock, rst>>
    /\ UNCHANGED rlvars
    /\ UNCHANGED rdvars
    /\ UNCHANGED opvars

\* mutant: a denied request is passed on to the endpoint
MwCheckExecute_PassesDenied(m) ==
    /\ mw[m].pc = "check"
    /\ \E limit_per_minute \in mw[m].limit_per_minute :
          LET key == RateKey(DefaultPrefix, MwIdentifier(mw[m].client_ip, mw[m].path))
              r == PipelineExecute(zsets[key], mw[m].now, MwWindow)
              is_allowed == IsAllowed(r.results[2], limit_per_minute)
          IN  /\ zsets' = [zsets EXCEPT ![key] = r.zset]
              /\ zttl' = [zttl EXCEPT ![key] = {clock + r.ttl}]
              /\ mw' = [mw EXCEPT ![m].checked = {[is_allowed |-> is_allowed]},
                                  ![m].now = 0,
                                  ![m].pc = "call_next"]
    /\ UNCHANGED <<clock, limit, window_seconds, caller, rlog, rst>>
    /\ UNCHANGED rdvars
    /\ UNCHANGED opvars

\* Redis runs the batch of check_rate_limit; a denied request is answered 429
\* with Retry-After, an allowed one goes on to call_next
MwCheckExecute(m) ==
    /\ mw[m].pc = "check"
    /\ \E limit_per_minute \in mw[m].limit_per_minute :
          LET key == RateKey(DefaultPrefix, MwIdentifier(mw[m].client_ip, mw[m].path))
              r == PipelineExecute(zsets[key], mw[m].now, MwWindow)
              is_allowed == IsAllowed(r.results[2], limit_per_minute)
          IN  /\ zsets' = [zsets EXCEPT ![key] = r.zset]
              /\ zttl' = [zttl EXCEPT ![key] = {clock + r.ttl}]
              /\ mw' = [mw EXCEPT
                          ![m].checked = {[is_allowed |-> is_allowed]},
                          ![m].now = 0,
                          ![m].pc = IF is_allowed THEN "call_next" ELSE "done",
                          ![m].response =
                              IF is_allowed THEN {}
                              ELSE {[status |-> HTTP_429_TOO_MANY_REQUESTS,
                                     retry_after_header |-> ToString(retry_after)]}]
    /\ UNCHANGED <<clock, limit, window_seconds, caller, rlog, rst>>
    /\ UNCHANGED rdvars
    /\ UNCHANGED opvars

\* call_next(request) for POST /api/urls/: the endpoint starts
MwCallNextCreate(p, user_id, custom_alias, tape) ==
    /\ mw[p].pc = "call_next"
    /\ mw[p].path = PathCreate
    /\ CreateStart(p, user_id, custom_alias, tape)

\* call_next(request) for GET /{short_code}: the endpoint starts
MwCallNextRedirect(r) ==
    /\ mw[r].pc = "call_next"
    /\ req[r].pc = "idle"
    /\ RedirectStart(r, Tail(mw[r].path))

NextMW ==
    \/ \E m \in Creators, client_ip \in ClientIps :
          \E path \in PathsOf(m) : MwDispatch(m, client_ip, path)
    \/ \E m \in Creators : MwCheckExecute(m)
    \/ \E p \in Creators :
          \E tape \in Tapes(MaxCreateDraws) :
              MwCallNextCreate(p, {"user1"}, {CodeNew}, tape)
    \/ \E p \in Creators : CreateInsert(p)
    \/ Tick

\* create requests of two clients entering through the middleware
InitMW ==
    /\ InitRedis
    /\ InitStore
    /\ InitOps
    /\ limit = MwLimit
    /\ window_seconds = MwWindow

SpecMW == InitMW /\ [][NextMW]_vars

\* the one client and the one create request that run beside the redirects
RedirectClient == "10.0.0.1"
RedirectCreators == {"p1"}

NextMR ==
    \/ \E m \in RedirectCreators \cup Reqs :
          \E path \in PathsOf(m) : MwDispatch(m, RedirectClient, path)
    \/ \E m \in RedirectCreators \cup Reqs : MwCheckExecute(m)
    \/ \E p \in RedirectCreators :
          \E tape \in Tapes(MaxCreateDraws) : MwCallNextCreate(p, {}, {}, tape)
    \/ \E p \in RedirectCreators : CreateInsert(p)
    \/ \E r \in Reqs : MwCallNextRedirect(r)
    \/ \E r \in Reqs : RedirectCacheGet(r)
    \/ \E r \in Reqs : RedirectHitRecord(r)
    \/ \E r \in Reqs : RedirectStoreGet(r)
    \/ \E r \in Reqs : RedirectMissRecord(r)
    \/ \E r \in Reqs : RedirectIncrement(r)
    \/ \E r \in Reqs : RedirectCacheSet(r)
    \/ Tick

\* redirect requests, and one create request, entering through the middleware
InitMR ==
    /\ InitRedis
    /\ InitStore
    /\ InitOps
    /\ limit = MwLimit
    /\ window_seconds = MwWindow

SpecMR == InitMR /\ [][NextMR]_vars

\* ---------------------------------------------------------------------
\* properties: the rate limit middleware
\* ---------------------------------------------------------------------

\* C23 (as the specification states it): every redirect request that the
\* redirect endpoint has begun to resolve was preceded by a check_rate_limit
\* call of the middleware for its client.  The path /{short_code} starts with
\* none of the patterns of rate_limits, so the middleware hands the request to
\* call_next without a check and this is violated.
C23_RedirectAfterCheck ==
    \A r \in Reqs :
        (\E i \in DOMAIN req[r].trace : req[r].trace[i] # "validate")
            => mw[r].checked # {}

\* C24: a create request on the limited prefix /api/urls/ that the limiter
\* denies is answered 429 with Retry-After 60, its endpoint never starts and
\* it inserts no row; an allowed one is handed to call_next, the endpoint runs
\* only for allowed requests, and it starts at most once per request.
C24_DeniedNeverReachesHandler ==
    /\ [](\A m \in Creators :
            /\ (mw[m].checked = {[is_allowed |-> FALSE]} =>
                   /\ mw[m].pc = "done"
                   /\ mw[m].response = {[status |-> HTTP_429_TOO_MANY_REQUESTS,
                                         retry_after_header |-> "60"]}
                   /\ cre[m].pc = "idle"
                   /\ cre[m].trace = <<>>
                   /\ \A id \in DOMAIN urls : id # NewId(m))
            /\ (mw[m].checked = {[is_allowed |-> TRUE]} =>
                   /\ mw[m].pc = "call_next"
                   /\ mw[m].response = {})
            /\ (cre[m].pc # "idle" => mw[m].checked = {[is_allowed |-> TRUE]}))
    /\ [][\A m \in Creators :
            /\ (cre[m].pc # "idle" => cre'[m].pc # "idle")
            /\ (cre[m].pc = "idle" /\ cre'[m].pc # "idle" =>
                   mw[m].pc = "call_next")]_vars

\* one create request was denied with 429 while another, allowed one, ran its
\* endpoint and inserted its row
C24_Witness ==
    \E m, n \in Creators :
        /\ mw[m].checked = {[is_allowed |-> FALSE]}
        /\ mw[m].response # {}
        /\ mw[n].checked = {[is_allowed |-> TRUE]}
        /\ cre[n].pc = "done"
        /\ NewId(n) \in DOMAIN urls

(* ==================== the limiters side by side ======================== *)
\* settings.rate_limit_per_minute (100), settings.rate_limit_per_hour (1000)
\* and settings.url_creation_limit_per_minute (10), scaled like the limits of
\* the middleware
rate_limit_per_minute == MwLimit
rate_limit_per_hour == MwLimit + 1
url_creation_limit_per_minute == MwLimit

\* the limit a derived limiter passes
LimiterLimit(fn) ==
    CASE fn = "check_ip_rate_limit" -> rate_limit_per_minute
      [] fn = "check_user_rate_limit" -> rate_limit_per_hour
      [] fn = "check_url_creation_limit" -> url_creation_limit_per_minute

\* the window a derived limiter passes: 60, 3600 and 60 seconds, scaled like
\* the window of the middleware
LimiterWindow(fn) ==
    IF fn = "check_user_rate_limit" THEN MwWindow + 1 ELSE MwWindow

\* check_ip_rate_limit, check_user_rate_limit and check_url_creation_limit
\* up to the await of pipe.execute() in check_rate_limit; each caller makes
\* one call
LimiterStart(c, fn, identifier) ==
    /\ caller[c].pc = "idle"
    /\ caller' = [caller EXCEPT ![c] =
                    [pc |-> "execute_limiter",
                     key |-> RateKey(LimiterPrefix(fn), identifier),
                     now |-> clock,
                     fn |-> fn,
                     identifier |-> identifier,
                     result |-> {}]]
    /\ UNCHANGED <<clock, zsets, zttl, limit, window_seconds, rlog>>
    /\ UNCHANGED rdvars
    /\ UNCHANGED opvars
    /\ UNCHANGED mwvars

\* Redis runs the batch of the derived limiter; it returns what
\* check_rate_limit returns
LimiterExecute(c) ==
    /\ caller[c].pc = "execute_limiter"
    /\ LET key == caller[c].key
           lim == LimiterLimit(caller[c].fn)
           r == PipelineExecute(zsets[key], caller[c].now, LimiterWindow(caller[c].fn))
           request_count == r.results[2]
       IN  /\ zsets' = [zsets EXCEPT ![key] = r.zset]
           /\ zttl' = [zttl EXCEPT ![key] = {clock + r.ttl}]
           /\ caller' = [caller EXCEPT
                           ![c].pc = "returned",
                           ![c].key = None,
                           ![c].now = 0,
                           ![c].result = {<<IsAllowed(request_count, lim),
                                            Remaining(request_count, lim)>>}]
    /\ UNCHANGED <<clock, limit, window_seconds, rlog>>
    /\ UNCHANGED rdvars
    /\ UNCHANGED opvars
    /\ UNCHANGED mwvars

\* the call each caller makes: the IP limiter for a client of the middleware,
\* and the two per-user limiters for the same user
LimiterCalls(c) ==
    IF c = "c1"
    THEN {<<"check_ip_rate_limit", "10.0.0.1">>, <<"check_user_rate_limit", "user1">>}
    ELSE {<<"check_url_creation_limit", "user1">>}

\* the requests whose middleware pass is followed here, and the client and
\* path of each: limited, skipped and unmatched paths
FrameRequests == {"p1", "p2"}
FramePaths(m) ==
    IF m = "p1"
    THEN {<<"10.0.0.1", PathCreate>>, <<"10.0.0.1", PathHealth>>, <<"10.0.0.1", PathRedirect>>}
    ELSE {<<"10.0.0.1", PathInfo>>, <<"10.0.0.2", PathCreate>>}

NextFR ==
    \/ \E c \in Callers : \E call \in LimiterCalls(c) : LimiterStart(c, call[1], call[2])
    \/ \E c \in Callers : LimiterExecute(c)
    \/ \E m \in FrameRequests : \E ask \in FramePaths(m) : MwDispatch(m, ask[1], ask[2])
    \/ \E m \in FrameRequests : MwCheckExecute(m)
    \/ Tick

\* the derived limiters and the middleware on one Redis
InitFR ==
    /\ InitRedis
    /\ InitStore
    /\ InitOps
    /\ limit = MwLimit
    /\ window_seconds = MwWindow

SpecFR == InitFR /\ [][NextFR]_vars

(* ------------------ properties: one window per key --------------------- *)
\* the window a derived limiter keeps for an argument, and the window the
\* middleware keeps for a client and a path
LimiterKey(fn, identifier) == RateKey(LimiterPrefix(fn), identifier)
MwKey(client_ip, path) == RateKey(DefaultPrefix, MwIdentifier(client_ip, path))

LimiterSources == UNION {{<<fn, identifier>> : identifier \in LimiterArgs(fn)} : fn \in LimiterNames}
MwSources == ClientIps \X MwPaths

\* the key keeps its members and its expiry in this step
SameWindow(key) == zsets'[key] = zsets[key] /\ zttl'[key] = zttl[key]

\* C33: a check changes only the window of its own key.  A call of a derived
\* limiter leaves the windows of every other limiter and identifier and of
\* the middleware as they are; a check of the middleware leaves the windows of
\* every other client and path and of the derived limiters as they are; a
\* request to /health or to a path that matches no configured prefix is handed
\* to call_next with no check, and its window stays empty.
C33_OwnWindowOnly ==
    /\ [][\A c \in Callers :
            (caller[c].pc = "execute_limiter" /\ caller'[c].pc = "returned")
              => /\ \A other \in LimiterSources \ {<<caller[c].fn, caller[c].identifier>>} :
                       SameWindow(LimiterKey(other[1], other[2]))
                 /\ \A other \in MwSources : SameWindow(MwKey(other[1], other[2]))
                 /\ caller[c].now \in
                       Scores(zsets'[LimiterKey(caller[c].fn, caller[c].identifier)])]_vars
    /\ [][\A m \in FrameRequests :
            (mw[m].pc = "check" /\ mw'[m].pc # "check")
              => /\ \A other \in MwSources \ {<<mw[m].client_ip, mw[m].path>>} :
                       SameWindow(MwKey(other[1], other[2]))
                 /\ \A other \in LimiterSources : SameWindow(LimiterKey(other[1], other[2]))
                 /\ mw[m].now \in Scores(zsets'[MwKey(mw[m].client_ip, mw[m].path)])]_vars
    /\ [][\A m \in FrameRequests :
            (mw[m].pc = "idle" /\ mw'[m].pc # "idle")
              => /\ UNCHANGED <<zsets, zttl>>
                 /\ mw'[m].path \in {PathHealth, PathRedirect}
                       => mw'[m].pc = "call_next" /\ mw'[m].checked = {}]_vars
    /\ [](/\ \A m \in FrameRequests :
                mw[m].path \in {PathHealth, PathRedirect}
                  => mw[m].pc = "call_next" /\ mw[m].checked = {}
          /\ \A client_ip \in ClientIps, path \in {PathHealth, PathRedirect} :
                zsets[MwKey(client_ip, path)] = {})

\* the per-user and the creation limiter were both called for user1 and the
\* middleware checked two paths of one client: each of the four windows holds
\* its own call only, and a request to /health or /abc went through beside them
C33_Witness ==
    /\ \A c \in Callers : caller[c].pc = "returned"
    /\ zsets[LimiterKey("check_user_rate_limit", "user1")] # {}
    /\ zsets[LimiterKey("check_url_creation_limit", "user1")] # {}
    /\ zsets[LimiterKey("check_user_rate_limit", "user1")]
          # zsets[LimiterKey("check_url_creation_limit", "user1")]
    /\ \E m, n \in FrameRequests :
          /\ mw[m].path = PathCreate /\ mw[m].client_ip = "10.0.0.1" /\ mw[m].checked # {}
          /\ mw[n].path = PathInfo /\ mw[n].client_ip = "10.0.0.1" /\ mw[n].checked # {}
          /\ zsets[MwKey("10.0.0.1", PathCreate)] # {}
          /\ zsets[MwKey("10.0.0.1", PathInfo)] # {}
          /\ zsets[MwKey("10.0.0.1", PathCreate)] # zsets[MwKey("10.0.0.1", PathInfo)]

====
